---- MODULE Spec2Model ----
(***************************************************************************)
(* RowChaser (row_chaser.h): the stateful conversion of a row of the      *)
(* Burrows-Wheeler index to an offset in the joined reference, by          *)
(* repeated step-left (mapLF) until the sentinel row or a marked row.      *)
(*                                                                         *)
(* Assertions (assert, assert_neq, assert_gt) are modelled as checked:    *)
(* a failing assertion stops the program, and the field `err` of the      *)
(* resolver records which one failed.  ASSERT_ONLY statements are          *)
(* executed.  32-bit words are modelled at the width WordBits; Unset is    *)
(* the all-ones word that the code writes as 0xffffffff.                   *)
(***************************************************************************)
EXTENDS Integers, FiniteSets, Sequences, TLC

VARIABLES
    ebwt_,  \* the index: fields _offMask, _offRate, _zOff, _offs and the mapLF table
    sa,     \* ground truth of the index: sa[r] is the text offset of row r
    rc,     \* rc[i]: the member state of resolver i, with its call history
    pc,     \* pc[i]: position of the driver loop of toFlatRefOff on resolver i
    ret     \* ret[i]: the value toFlatRefOff returned

vars == <<ebwt_, sa, rc, pc, ret>>

----------------------------------------------------------------------------
(* Bounds of the model *)

NumRows == 6        \* rows of the index: 0 .. NumRows-1 (text length NumRows-1)
MaxOffRate == 2     \* offRate ranges over 1 .. MaxOffRate
MaxQlen == 2        \* qlen ranges over 0 .. MaxQlen
NumChasers == 2     \* resolvers driven together over one index
WordBits == 8       \* width of the modelled machine word

Rows == 0 .. (NumRows - 1)
OffRates == 1 .. MaxOffRate
WordMod == 2 ^ WordBits
Unset == WordMod - 1
MaxJumps == NumRows + 2

----------------------------------------------------------------------------
(* Word arithmetic *)

RECURSIVE BitAnd(_, _)
BitAnd(a, b) ==
    IF a = 0 \/ b = 0 THEN 0
    ELSE (a % 2) * (b % 2) + 2 * BitAnd(a \div 2, b \div 2)

ShiftRight(a, k) == a \div (2 ^ k)

ShiftLeft(a, k) == (a * (2 ^ k)) % WordMod

----------------------------------------------------------------------------
(* The index.  A valid index is the index of a text of NumRows-1           *)
(* characters: row r holds the r-th smallest suffix, which starts at       *)
(* offset sa[r] (row 0 holds the empty suffix); mapLF takes a row to the   *)
(* row of the suffix one character to the left; every row that is a        *)
(* multiple of 2^offRate has its offset in _offs; _zOff is the row of      *)
(* offset 0.                                                               *)

TextLen == NumRows - 1

Alphabet == {0, 1}

Texts == [1 .. TextLen -> Alphabet]

\* The suffix of t at offset j sorts before the suffix at offset k.
RECURSIVE SuffixLess(_, _, _)
SuffixLess(t, j, k) ==
    IF j = TextLen THEN k # TextLen
    ELSE IF k = TextLen THEN FALSE
    ELSE IF t[j + 1] # t[k + 1] THEN t[j + 1] < t[k + 1]
    ELSE SuffixLess(t, j + 1, k + 1)

SuffixArrayOf(t) ==
    [r \in Rows |->
        CHOOSE k \in 0 .. TextLen :
            Cardinality({j \in 0 .. TextLen : SuffixLess(t, j, k)}) = r]

SuffixArrays == { SuffixArrayOf(t) : t \in Texts }

RowOf(s, k) == CHOOSE r \in Rows : s[r] = k

LFOf(s) == [r \in Rows |-> RowOf(s, (s[r] + NumRows - 1) % NumRows)]

OffsOf(s, rate) == [k \in 0 .. ShiftRight(NumRows - 1, rate) |-> s[ShiftLeft(k, rate)]]

EbwtOf(s, rate) ==
    [ offMask |-> ShiftLeft(Unset, rate),
      offRate |-> rate,
      zOff    |-> RowOf(s, 0),
      offs    |-> OffsOf(s, rate),
      lf      |-> LFOf(s) ]

\* An index whose mapLF table has one entry overwritten.
Corrupted(e, c, t) == [e EXCEPT !.lf[c] = t]

ValidIndex == ebwt_ = EbwtOf(sa, ebwt_.offRate)

----------------------------------------------------------------------------
(* SideLocus *)

SideLocus == [valid |-> FALSE, row |-> Unset, prefetched |-> FALSE]

invalidate(loc) == [valid |-> FALSE, row |-> Unset, prefetched |-> FALSE]

initFromRow(row) == [valid |-> TRUE, row |-> row, prefetched |-> FALSE]

prefetch(loc) == [loc EXCEPT !.prefetched = TRUE]

\* The rows mapLF can return for a locus: the table entry of the row the
\* locus was built from; any row for a locus that was never built.
mapLF(loc) ==
    IF loc.valid /\ loc.row \in DOMAIN ebwt_.lf THEN {ebwt_.lf[loc.row]}
    ELSE DOMAIN ebwt_.lf

----------------------------------------------------------------------------
(* RowChaser *)

\* The constructor.  err, last, start, nadv, npre and got are history: the
\* assertion that failed, the last call, the row of the last setRow, the
\* advance() calls and prefetches since the last setRow, and the value
\* flatOff() or off() handed to its caller since the last setRow or advance.
RowChaser ==
    [ prepped_ |-> FALSE,
      qlen_    |-> 0,
      row_     |-> Unset,
      jumps_   |-> 0,
      sideloc_ |-> SideLocus,
      done_    |-> FALSE,
      off_     |-> Unset,
      tlen_    |-> 0,
      err      |-> "none",
      last     |-> "RowChaser",
      start    |-> Unset,
      nadv     |-> 0,
      npre     |-> 0,
      got      |-> <<>> ]

Fail(c, op, what) == [c EXCEPT !.err = what, !.last = op]

IsZOff(row) == row = ebwt_.zOff

IsMarked(row) == BitAnd(row, ebwt_.offMask) = row

OffsAt(row) == ebwt_.offs[ShiftRight(row, ebwt_.offRate)]

\* prep() that builds and prefetches the locus even when the chase is done.
prep_always(c) ==
    IF c.prepped_ THEN Fail(c, c.last, "assert(!prepped_)")
    ELSE IF c.sideloc_.valid THEN Fail(c, c.last, "assert(!sideloc_.valid())")
    ELSE [c EXCEPT !.sideloc_ = prefetch(initFromRow(c.row_)),
                   !.npre = @ + 1,
                   !.prepped_ = TRUE]

\* prep() that marks the resolver prepared without building the locus.
prep_noLocus(c) == [c EXCEPT !.prepped_ = TRUE]

prep(c) ==
    IF ~c.done_
    THEN IF c.prepped_ THEN Fail(c, c.last, "assert(!prepped_)")
         ELSE IF c.sideloc_.valid THEN Fail(c, c.last, "assert(!sideloc_.valid())")
         ELSE [c EXCEPT !.sideloc_ = prefetch(initFromRow(c.row_)),
                        !.npre = @ + 1,
                        !.prepped_ = TRUE]
    ELSE [c EXCEPT !.prepped_ = TRUE]

\* setRow()'s assertions without the one on the query length.
setRowAsserts_noQlen(row, qlen) ==
    IF row = Unset THEN "assert_neq(0xffffffff, row)" ELSE "none"

setRowAsserts(row, qlen) ==
    IF row = Unset THEN "assert_neq(0xffffffff, row)"
    ELSE IF ~(qlen > 0) THEN "assert_gt(qlen, 0)"
    ELSE "none"

\* setRow() that leaves the offset of the previous chase in place.
setRowResolve_keepOff(c) ==
    IF IsZOff(c.row_)
    THEN [c EXCEPT !.off_ = 0, !.done_ = TRUE]
    ELSE IF IsMarked(c.row_)
    THEN [c EXCEPT !.off_ = OffsAt(c.row_), !.done_ = TRUE]
    ELSE prep([c EXCEPT !.done_ = FALSE,
                        !.jumps_ = 0,
                        !.prepped_ = FALSE])

\* setRow() that does not reset the step count.
setRowResolve_keepJumps(c) ==
    IF IsZOff(c.row_)
    THEN [c EXCEPT !.off_ = 0, !.done_ = TRUE]
    ELSE IF IsMarked(c.row_)
    THEN [c EXCEPT !.off_ = OffsAt(c.row_), !.done_ = TRUE]
    ELSE prep([c EXCEPT !.done_ = FALSE,
                        !.off_ = Unset,
                        !.prepped_ = FALSE])

\* setRow() that does not clear prepped_.
setRowResolve_keepPrepped(c) ==
    IF IsZOff(c.row_)
    THEN [c EXCEPT !.off_ = 0, !.done_ = TRUE]
    ELSE IF IsMarked(c.row_)
    THEN [c EXCEPT !.off_ = OffsAt(c.row_), !.done_ = TRUE]
    ELSE prep([c EXCEPT !.done_ = FALSE,
                        !.jumps_ = 0,
                        !.off_ = Unset])

\* setRow() without the test for the sentinel row.
setRowResolve_noZOff(c) ==
    IF IsMarked(c.row_)
    THEN [c EXCEPT !.off_ = OffsAt(c.row_), !.done_ = TRUE]
    ELSE prep([c EXCEPT !.done_ = FALSE,
                        !.jumps_ = 0,
                        !.off_ = Unset,
                        !.prepped_ = FALSE])

\* setRow() that adds the step count to a marked row's offset, as advance() does.
setRowResolve_addJumps(c) ==
    IF IsZOff(c.row_)
    THEN [c EXCEPT !.off_ = 0, !.done_ = TRUE]
    ELSE IF IsMarked(c.row_)
    THEN [c EXCEPT !.off_ = (OffsAt(c.row_) + c.jumps_) % WordMod, !.done_ = TRUE]
    ELSE prep([c EXCEPT !.done_ = FALSE,
                        !.jumps_ = 0,
                        !.off_ = Unset,
                        !.prepped_ = FALSE])

setRowResolve(c) ==
    IF IsZOff(c.row_)
    THEN [c EXCEPT !.off_ = 0, !.done_ = TRUE]
    ELSE IF IsMarked(c.row_)
    THEN [c EXCEPT !.off_ = OffsAt(c.row_), !.done_ = TRUE]
    ELSE prep([c EXCEPT !.done_ = FALSE,
                        !.jumps_ = 0,
                        !.off_ = Unset,
                        !.prepped_ = FALSE])

setRow(c, row, qlen) ==
    IF setRowAsserts(row, qlen) # "none"
    THEN Fail(c, "setRow", setRowAsserts(row, qlen))
    ELSE setRowResolve([c EXCEPT !.row_ = row,
                                 !.qlen_ = qlen,
                                 !.sideloc_ = invalidate(@),
                                 !.last = "setRow",
                                 !.start = row,
                                 !.nadv = 0,
                                 !.npre = 0,
                                 !.got = <<>>])

done(c) == c.done_

flatOff(c) == c.off_

\* The reference sequences joined in the text: two, the first of half
\* the length.
RefLens == <<TextLen \div 2, TextLen - (TextLen \div 2)>>

\* What is left in a local variable that was never assigned.
Uninitialized == {0, Unset}

\* joinedToTextOff(qlen, off, tidx, textoff, tlen): the results it can leave
\* in tidx, textoff and tlen.  When the qlen characters at off do not lie
\* within one sequence, tidx is 0xffffffff and textoff and tlen are not
\* written.
joinedToTextOff(qlen, off, tlen) ==
    IF off + qlen <= RefLens[1]
    THEN {[tidx |-> 0, textoff |-> off, tlen |-> RefLens[1]]}
    ELSE IF off >= RefLens[1] /\ off + qlen <= TextLen
    THEN {[tidx |-> 1, textoff |-> off - RefLens[1], tlen |-> RefLens[2]]}
    ELSE {[tidx |-> Unset, textoff |-> x, tlen |-> tlen] : x \in Uninitialized}

\* off() without its assertion.
offAsserts_none(c) == "none"

offAsserts(c) ==
    IF flatOff(c) = Unset THEN "assert_neq(0xffffffff, off)"
    ELSE "none"

\* off() that translates the current row instead of the offset.
offTranslate_row(c) == joinedToTextOff(c.qlen_, c.row_, c.tlen_)

offTranslate(c) == joinedToTextOff(c.qlen_, flatOff(c), c.tlen_)

\* The states off() can leave the resolver in.
off(c) ==
    IF offAsserts(c) # "none"
    THEN {[Fail(c, "off", offAsserts(c)) EXCEPT !.got = <<>>]}
    ELSE {[c EXCEPT !.tlen_ = t.tlen,
                    !.got = <<t.tidx, t.textoff>>,
                    !.last = "off"] : t \in offTranslate(c)}

tlen(c) == c.tlen_

\* advance() without assert(!done_).
advanceAsserts_noDone(c) ==
    IF ~c.prepped_ THEN "assert(prepped_)"
    ELSE "none"

advanceAsserts(c) ==
    IF c.done_ THEN "assert(!done_)"
    ELSE IF ~c.prepped_ THEN "assert(prepped_)"
    ELSE "none"

\* advance() without the test for a marked row.
advanceResolve_noMarked(c) ==
    IF IsZOff(c.row_)
    THEN [c EXCEPT !.off_ = c.jumps_, !.done_ = TRUE]
    ELSE c

\* advance() that forgets the steps taken when it reaches a marked row.
advanceResolve_noJumps(c) ==
    IF IsZOff(c.row_)
    THEN [c EXCEPT !.off_ = c.jumps_, !.done_ = TRUE]
    ELSE IF IsMarked(c.row_)
    THEN [c EXCEPT !.off_ = OffsAt(c.row_), !.done_ = TRUE]
    ELSE c

advanceResolve(c) ==
    IF IsZOff(c.row_)
    THEN [c EXCEPT !.off_ = c.jumps_, !.done_ = TRUE]
    ELSE IF IsMarked(c.row_)
    THEN [c EXCEPT !.off_ = (OffsAt(c.row_) + c.jumps_) % WordMod, !.done_ = TRUE]
    ELSE c

\* advance() that does not store the new row.
advanceStep_keepRow(c, newrow) ==
    LET c1 == [c EXCEPT !.prepped_ = FALSE,
                        !.sideloc_ = invalidate(@),
                        !.jumps_ = (@ + 1) % WordMod,
                        !.last = "advance",
                        !.nadv = @ + 1]
    IN  IF newrow = c1.row_
        THEN Fail(c1, "advance", "assert_neq(newrow, row_)")
        ELSE prep(advanceResolve(c1))

\* advance() that does not count the step.
advanceStep_noCount(c, newrow) ==
    LET c1 == [c EXCEPT !.prepped_ = FALSE,
                        !.sideloc_ = invalidate(@),
                        !.last = "advance",
                        !.nadv = @ + 1]
    IN  IF newrow = c1.row_
        THEN Fail(c1, "advance", "assert_neq(newrow, row_)")
        ELSE prep(advanceResolve([c1 EXCEPT !.row_ = newrow]))

\* advance() without assert_neq(newrow, row_).
advanceStep_noNeq(c, newrow) ==
    LET c1 == [c EXCEPT !.prepped_ = FALSE,
                        !.sideloc_ = invalidate(@),
                        !.jumps_ = (@ + 1) % WordMod,
                        !.last = "advance",
                        !.nadv = @ + 1]
    IN  prep(advanceResolve([c1 EXCEPT !.row_ = newrow]))

advanceStep(c, newrow) ==
    LET c1 == [c EXCEPT !.prepped_ = FALSE,
                        !.sideloc_ = invalidate(@),
                        !.jumps_ = (@ + 1) % WordMod,
                        !.last = "advance",
                        !.nadv = @ + 1]
    IN  IF newrow = c1.row_
        THEN Fail(c1, "advance", "assert_neq(newrow, row_)")
        ELSE prep(advanceResolve([c1 EXCEPT !.row_ = newrow]))

advance(c, newrow) ==
    IF advanceAsserts(c) # "none"
    THEN Fail(c, "advance", advanceAsserts(c))
    ELSE advanceStep([c EXCEPT !.got = <<>>], newrow)

----------------------------------------------------------------------------
(* Calls of a client on the resolvers *)

Chasers == DOMAIN rc

Running == \A i \in Chasers : rc[i].err = "none"

RowArgs == (DOMAIN ebwt_.lf) \cup {Unset}

QlenArgs == 0 .. MaxQlen

\* The index of a text, or that index with the mapLF entry of one row that
\* is neither marked nor the sentinel row overwritten (mapLF is never asked
\* about the other rows): the entry names its own row, or the row that
\* leads to it, so the damaged walk repeats a row or turns back.
InitIndex ==
    /\ sa \in SuffixArrays
    /\ \E k \in OffRates :
          ebwt_ \in {EbwtOf(sa, k)}
                      \cup { Corrupted(EbwtOf(sa, k), p[1], p[2]) :
                                p \in { q \in Rows \X Rows :
                                           /\ q[1] # RowOf(sa, 0)
                                           /\ q[1] % (2 ^ k) # 0
                                           /\ \/ q[2] = q[1]
                                              \/ LFOf(sa)[q[2]] = q[1] } }

Init ==
    /\ InitIndex
    /\ rc = [i \in 1 .. 1 |-> RowChaser]
    /\ pc = [i \in 1 .. 1 |-> "client"]
    /\ ret = [i \in 1 .. 1 |-> Unset]

SetRow(i) ==
    /\ Running
    /\ pc[i] = "client"
    /\ \E row \in RowArgs, qlen \in QlenArgs :
          rc' = [rc EXCEPT ![i] = setRow(rc[i], row, qlen)]
    /\ UNCHANGED <<ebwt_, sa, pc, ret>>

Advance(i) ==
    /\ Running
    /\ pc[i] = "client"
    /\ rc[i].jumps_ < MaxJumps
    /\ \E newrow \in mapLF(rc[i].sideloc_) :
          rc' = [rc EXCEPT ![i] = advance(rc[i], newrow)]
    /\ UNCHANGED <<ebwt_, sa, pc, ret>>

Next ==
    \/ \E i \in Chasers : SetRow(i)
    \/ \E i \in Chasers : Advance(i)

Spec == Init /\ [][Next]_vars

\* The client also reads the result, at any time, over the index of a text.
FlatOff(i) ==
    /\ Running
    /\ pc[i] = "client"
    /\ rc' = [rc EXCEPT ![i] = [@ EXCEPT !.got = <<flatOff(rc[i])>>, !.last = "flatOff"]]
    /\ UNCHANGED <<ebwt_, sa, pc, ret>>

Off(i) ==
    /\ Running
    /\ pc[i] = "client"
    /\ \E c \in off(rc[i]) : rc' = [rc EXCEPT ![i] = c]
    /\ UNCHANGED <<ebwt_, sa, pc, ret>>

ReadInit ==
    /\ sa \in SuffixArrays
    /\ ebwt_ \in { EbwtOf(sa, k) : k \in OffRates }
    /\ rc = [i \in 1 .. 1 |-> RowChaser]
    /\ pc = [i \in 1 .. 1 |-> "client"]
    /\ ret = [i \in 1 .. 1 |-> Unset]

ReadNext ==
    \/ \E i \in Chasers : SetRow(i)
    \/ \E i \in Chasers : Advance(i)
    \/ \E i \in Chasers : FlatOff(i)
    \/ \E i \in Chasers : Off(i)

ReadSpec == ReadInit /\ [][ReadNext]_vars

\* The example index: offRate 2, the sentinel row 0, mapLF 7 -> 5 -> 2,
\* offs[0] = 10, and any offMask under which row 2 is marked and rows 5 and
\* 7 are not.  Its rows are those the example names.
ExampleRows == {0, 2, 5, 7}

ExampleInit ==
    /\ sa = [r \in ExampleRows |-> IF r = 0 THEN 0 ELSE IF r = 2 THEN 10
                                      ELSE IF r = 5 THEN 11 ELSE 12]
    /\ \E mask \in 0 .. Unset :
       \E lf \in [ExampleRows -> ExampleRows] :
          /\ BitAnd(2, mask) = 2 /\ BitAnd(5, mask) # 5 /\ BitAnd(7, mask) # 7
          /\ lf[7] = 5 /\ lf[5] = 2
          /\ ebwt_ = [ offMask |-> mask,
                       offRate |-> 2,
                       zOff    |-> 0,
                       offs    |-> [k \in {0} |-> 10],
                       lf      |-> lf ]
    /\ rc = [i \in 1 .. 1 |-> RowChaser]
    /\ pc = [i \in 1 .. 1 |-> "client"]
    /\ ret = [i \in 1 .. 1 |-> Unset]

ExampleSpec == ExampleInit /\ [][Next]_vars

----------------------------------------------------------------------------
(* toFlatRefOff: construct a resolver, setRow, advance until done, return  *)
(* flatOff.  As a function (the sequential drive), and as the steps of     *)
(* one driver per resolver.                                                *)

RECURSIVE driveLoop(_)
driveLoop(c) ==
    IF done(c) \/ c.err # "none" \/ c.jumps_ >= MaxJumps THEN c
    ELSE driveLoop(advance(c, CHOOSE newrow \in mapLF(c.sideloc_) : TRUE))

toFlatRefOff(qlen, row) == driveLoop(setRow(RowChaser, row, qlen))

ToFlatRefOffCall(i) ==
    /\ Running
    /\ pc[i] = "call"
    /\ \E row \in RowArgs, qlen \in QlenArgs :
          rc' = [rc EXCEPT ![i] = setRow(RowChaser, row, qlen)]
    /\ pc' = [pc EXCEPT ![i] = "loop"]
    /\ UNCHANGED <<ebwt_, sa, ret>>

\* The loop step with the step count shared by all resolvers.
ToFlatRefOffLoop_sharedJumps(i) ==
    /\ Running
    /\ pc[i] = "loop"
    /\ ~done(rc[i])
    /\ rc[i].jumps_ < MaxJumps
    /\ \E newrow \in mapLF(rc[i].sideloc_) :
          rc' = [j \in Chasers |->
                   IF j = i THEN advance(rc[i], newrow)
                   ELSE [rc[j] EXCEPT !.jumps_ = advance(rc[i], newrow).jumps_]]
    /\ UNCHANGED <<ebwt_, sa, pc, ret>>

ToFlatRefOffLoop(i) ==
    /\ Running
    /\ pc[i] = "loop"
    /\ ~done(rc[i])
    /\ rc[i].jumps_ < MaxJumps
    /\ \E newrow \in mapLF(rc[i].sideloc_) :
          rc' = [rc EXCEPT ![i] = advance(rc[i], newrow)]
    /\ UNCHANGED <<ebwt_, sa, pc, ret>>

ToFlatRefOffReturn(i) ==
    /\ Running
    /\ pc[i] = "loop"
    /\ done(rc[i])
    /\ ret' = [ret EXCEPT ![i] = flatOff(rc[i])]
    /\ pc' = [pc EXCEPT ![i] = "ret"]
    /\ UNCHANGED <<ebwt_, sa, rc>>

DriveNext ==
    \/ \E i \in Chasers : ToFlatRefOffCall(i)
    \/ \E i \in Chasers : ToFlatRefOffLoop(i)
    \/ \E i \in Chasers : ToFlatRefOffReturn(i)

\* One driver, any index; the loop is the only thing running, so it is
\* scheduled until it returns.
DriveInit ==
    /\ InitIndex
    /\ rc = [i \in 1 .. 1 |-> RowChaser]
    /\ pc = [i \in 1 .. 1 |-> "call"]
    /\ ret = [i \in 1 .. 1 |-> Unset]

DriveSpec == DriveInit /\ [][DriveNext]_vars /\ WF_vars(DriveNext)

\* NumChasers drivers over one valid index, their steps interleaved in any
\* order.  The texts are those of one repeated letter.
MultiTexts == { t \in Texts : \A k \in 2 .. TextLen : t[k] = t[k - 1] }

MultiInit ==
    /\ sa \in { SuffixArrayOf(t) : t \in MultiTexts }
    /\ ebwt_ \in { EbwtOf(sa, k) : k \in OffRates }
    /\ rc = [i \in 1 .. NumChasers |-> RowChaser]
    /\ pc = [i \in 1 .. NumChasers |-> "call"]
    /\ ret = [i \in 1 .. NumChasers |-> Unset]

MultiSpec == MultiInit /\ [][DriveNext]_vars

----------------------------------------------------------------------------
(* Properties *)

\* Row is neither the sentinel row nor a marked row.
Unmarked(row) == row \in Rows /\ row # ebwt_.zOff /\ BitAnd(row, ebwt_.offMask) # row

\* The offset the index knows for an anchor row.
AnchorOff(a) == IF a = ebwt_.zOff THEN 0 ELSE ebwt_.offs[a \div (2 ^ ebwt_.offRate)]

\* A prefetch has been issued for the locus of the current row.
PrefetchIssued(c) ==
    c.sideloc_.valid /\ c.sideloc_.prefetched /\ c.sideloc_.row = c.row_

\* C1: on a valid index, a chase from an unmarked non-sentinel row that is
\* done holds in flatOff() the known offset of the anchor row it reached plus
\* the number of advance() calls, and that is the text offset of the start row.
C1_FlatOffIsTextOffset ==
    \A i \in Chasers :
        (ValidIndex /\ rc[i].err = "none" /\ done(rc[i]) /\ Unmarked(rc[i].start))
        => /\ ~Unmarked(rc[i].row_)
           /\ flatOff(rc[i]) = AnchorOff(rc[i].row_) + rc[i].nadv
           /\ flatOff(rc[i]) = sa[rc[i].start]

C1_Witness ==
    \E i \in Chasers :
        /\ ValidIndex /\ rc[i].err = "none" /\ done(rc[i]) /\ Unmarked(rc[i].start)
        /\ rc[i].nadv >= 2
        /\ rc[i].row_ # ebwt_.zOff

\* C2: setRow on the sentinel row, marked or not and whatever the resolver
\* held before, returns done with flatOff() = 0, and has issued no prefetch.
C2_SentinelResolvesAtOnce ==
    \A i \in Chasers :
        (rc[i].last = "setRow" /\ rc[i].err = "none" /\ rc[i].start = ebwt_.zOff)
        => /\ done(rc[i])
           /\ flatOff(rc[i]) = 0
           /\ rc[i].nadv = 0
           /\ rc[i].npre = 0
           /\ ~rc[i].sideloc_.valid

\* The sentinel row is a marked row, and the resolver had stepped before.
C2_Witness ==
    \E i \in Chasers :
        /\ rc[i].last = "setRow" /\ rc[i].err = "none" /\ rc[i].start = ebwt_.zOff
        /\ BitAnd(ebwt_.zOff, ebwt_.offMask) = ebwt_.zOff
        /\ rc[i].jumps_ > 0
        /\ done(rc[i])

\* C3: setRow on a marked row that is not the sentinel row returns done
\* with flatOff() = offs[row >> offRate], and has issued no prefetch.
C3_MarkedResolvesAtOnce ==
    \A i \in Chasers :
        (/\ rc[i].last = "setRow" /\ rc[i].err = "none"
         /\ rc[i].start \in Rows
         /\ BitAnd(rc[i].start, ebwt_.offMask) = rc[i].start
         /\ rc[i].start # ebwt_.zOff)
        => /\ done(rc[i])
           /\ flatOff(rc[i]) = ebwt_.offs[rc[i].start \div (2 ^ ebwt_.offRate)]
           /\ rc[i].nadv = 0
           /\ rc[i].npre = 0
           /\ ~rc[i].sideloc_.valid

C3_Witness ==
    \E i \in Chasers :
        /\ rc[i].last = "setRow" /\ rc[i].err = "none"
        /\ rc[i].start \in Rows \ {0}
        /\ BitAnd(rc[i].start, ebwt_.offMask) = rc[i].start
        /\ rc[i].start # ebwt_.zOff
        /\ done(rc[i])
        /\ flatOff(rc[i]) = sa[rc[i].start]
        /\ rc[i].jumps_ > 0

\* C4: advance() called when no prefetch has been issued for the current
\* locus, or when the chase is done, fails an assertion and leaves the
\* current row, the step count and the offset as they were.
C4_AdvanceOutOfTurnRejected ==
    [][\A i \in Chasers :
          (/\ rc'[i] # rc[i]
           /\ rc'[i].last = "advance"
           /\ (~PrefetchIssued(rc[i]) \/ done(rc[i])))
          => /\ rc'[i].err \in {"assert(!done_)", "assert(prepped_)"}
             /\ rc'[i].row_ = rc[i].row_
             /\ rc'[i].jumps_ = rc[i].jumps_
             /\ rc'[i].off_ = rc[i].off_]_vars

\* advance() was rejected on a resolver whose chase had resolved by stepping.
C4_Witness ==
    \E i \in Chasers :
        /\ rc[i].err = "assert(!done_)"
        /\ rc[i].last = "advance"
        /\ rc[i].jumps_ > 0
        /\ rc[i].off_ # Unset

\* advance() was rejected on a resolver that was never given a row.
C4_WitnessFresh ==
    \E i \in Chasers :
        /\ rc[i].err = "assert(prepped_)"
        /\ rc[i].row_ = Unset

\* C5: prefetches issued and steps consumed alternate: the prefetches
\* since the last setRow are the steps consumed or one more, a resolver that
\* may step holds the prefetched locus of its current row, and every step
\* consumes such a locus.
C5_PrefetchStepAlternate ==
    /\ [](\A i \in Chasers :
            /\ rc[i].npre - rc[i].nadv \in {0, 1}
            /\ (rc[i].prepped_ /\ ~done(rc[i]) /\ rc[i].err = "none")
                  => (PrefetchIssued(rc[i]) /\ rc[i].npre = rc[i].nadv + 1))
    /\ [][\A i \in Chasers :
            (rc'[i].nadv = rc[i].nadv + 1)
            => /\ PrefetchIssued(rc[i])
               /\ rc[i].npre = rc[i].nadv + 1
               /\ rc'[i].npre - rc'[i].nadv \in {0, 1}]_vars

\* A second step of one chase has been consumed and a third prefetched.
C5_Witness ==
    \E i \in Chasers :
        /\ rc[i].err = "none" /\ ~done(rc[i])
        /\ rc[i].nadv = 2 /\ rc[i].npre = 3
        /\ PrefetchIssued(rc[i])

\* Resolver i, its driver or its result changes in this step.
Touched(i) == rc'[i] # rc[i] \/ pc'[i] # pc[i] \/ ret'[i] # ret[i]

\* C6: resolvers driven over one index with their steps interleaved end
\* each with the state, the offset and the number of steps of the
\* sequential drive of its row; a step of one resolver changes no other
\* resolver, and no step changes the index.
C6_InterleavingInvariant ==
    /\ [](\A i \in Chasers :
            pc[i] = "ret"
            => /\ rc[i] = toFlatRefOff(rc[i].qlen_, rc[i].start)
               /\ ret[i] = flatOff(toFlatRefOff(rc[i].qlen_, rc[i].start))
               /\ rc[i].nadv = toFlatRefOff(rc[i].qlen_, rc[i].start).nadv)
    /\ [][/\ ebwt_' = ebwt_
          /\ \A i, j \in Chasers : (Touched(i) /\ j # i) => ~Touched(j)]_vars

\* Two resolvers have each returned from a chase of two steps or more, of
\* different rows.
C6_Witness ==
    /\ Cardinality(Chasers) >= 2
    /\ \E i, j \in Chasers :
          /\ i # j
          /\ pc[i] = "ret" /\ pc[j] = "ret"
          /\ rc[i].start # rc[j].start
          /\ rc[i].nadv >= 2 /\ rc[j].nadv >= 1
          /\ ret[i] # ret[j]

\* C7 as stated: on a valid index a chase from an unmarked non-sentinel row
\* is done after at least 1 and at most 2^offRate advance() calls.
C7_StepsWithinInterval ==
    \A i \in Chasers :
        (ValidIndex /\ rc[i].err = "none" /\ done(rc[i]) /\ Unmarked(rc[i].start))
        => (1 <= rc[i].nadv /\ rc[i].nadv <= 2 ^ ebwt_.offRate)

\* C7 as amended: such a chase is done after at least 1 advance() call and
\* at most as many as there are unmarked non-sentinel rows, and at most the
\* text offset of the start row.
C7_StepsBounded ==
    \A i \in Chasers :
        (ValidIndex /\ rc[i].err = "none" /\ done(rc[i]) /\ Unmarked(rc[i].start))
        => /\ 1 <= rc[i].nadv
           /\ rc[i].nadv <= Cardinality({r \in Rows : Unmarked(r)})
           /\ rc[i].nadv <= sa[rc[i].start]

\* A chase on a valid index that took more steps than the sampling interval.
C7_Witness ==
    \E i \in Chasers :
        /\ ValidIndex /\ rc[i].err = "none" /\ done(rc[i]) /\ Unmarked(rc[i].start)
        /\ rc[i].nadv > 2 ^ ebwt_.offRate

\* C8: on a valid index the loop of toFlatRefOff, once setRow has accepted
\* the row, reaches its return.
C8_DriveTerminates ==
    (ValidIndex /\ pc[1] = "loop" /\ rc[1].err = "none") ~> (pc[1] = "ret")

C8_Witness ==
    /\ ValidIndex
    /\ pc[1] = "ret"
    /\ rc[1].nadv >= 2
    /\ ret[1] = sa[rc[1].start]

\* C9 as stated: a chase whose step count exceeds the sampling interval has
\* been stopped with an error.
C9_StoppedBeyondInterval ==
    \A i \in Chasers :
        (rc[i].last = "advance" /\ rc[i].jumps_ > 2 ^ ebwt_.offRate)
        => rc[i].err # "none"

\* C9 as amended: advance() called in turn on a row that mapLF does not map
\* to itself takes the step whatever the step count is.
C9_NoStepBound ==
    [][\A i \in Chasers :
          (/\ rc'[i] # rc[i]
           /\ rc'[i].last = "advance"
           /\ ~done(rc[i]) /\ rc[i].prepped_
           /\ ebwt_.lf[rc[i].row_] # rc[i].row_)
          => /\ rc'[i].err = "none"
             /\ rc'[i].jumps_ = rc[i].jumps_ + 1
             /\ rc'[i].row_ = ebwt_.lf[rc[i].row_]]_vars

\* A chase on a corrupted index that has taken more steps than the index
\* has rows and is still stepping.
C9_Witness ==
    \E i \in Chasers :
        /\ ~ValidIndex
        /\ rc[i].err = "none" /\ ~done(rc[i]) /\ rc[i].prepped_
        /\ rc[i].jumps_ > NumRows

\* C10: when mapLF returns the row whose locus was consumed, advance()
\* fails assert_neq and the chase is not resolved; on a valid index no row
\* awaiting a step is mapped to itself and the assertion never fails.
C10_SameRowIsFatal ==
    /\ [](ValidIndex =>
            \A i \in Chasers :
                /\ rc[i].err # "assert_neq(newrow, row_)"
                /\ (rc[i].prepped_ /\ ~done(rc[i]) /\ rc[i].err = "none")
                      => (Unmarked(rc[i].row_) /\ ebwt_.lf[rc[i].row_] # rc[i].row_))
    /\ [][\A i \in Chasers :
            (/\ rc'[i] # rc[i]
             /\ rc'[i].last = "advance"
             /\ ~done(rc[i]) /\ rc[i].prepped_
             /\ ebwt_.lf[rc[i].row_] = rc[i].row_)
            => /\ rc'[i].err = "assert_neq(newrow, row_)"
               /\ ~done(rc'[i])
               /\ rc'[i].off_ = Unset
               /\ rc'[i].row_ = rc[i].row_]_vars

\* advance() failed assert_neq on the second step of a chase.
C10_Witness ==
    \E i \in Chasers :
        /\ rc[i].err = "assert_neq(newrow, row_)"
        /\ rc[i].nadv = 2
        /\ ~done(rc[i])

\* C11 as stated: a read of the result while done() is false has failed an
\* assertion and handed no value to the caller.
C11_ReadBeforeDoneRejected ==
    \A i \in Chasers :
        (rc[i].last \in {"flatOff", "off"} /\ ~done(rc[i]))
        => (rc[i].err # "none" /\ rc[i].got = <<>>)

\* C11 as amended: off() while done() is false has failed assert_neq and
\* handed no value to the caller; flatOff() while done() is false has failed
\* nothing and handed the caller 0xffffffff.
C11_OffRejectedFlatOffUnset ==
    \A i \in Chasers :
        /\ (rc[i].last = "off" /\ ~done(rc[i]))
              => (rc[i].err = "assert_neq(0xffffffff, off)" /\ rc[i].got = <<>>)
        /\ (rc[i].last = "flatOff" /\ ~done(rc[i]))
              => (rc[i].err = "none" /\ rc[i].got = <<Unset>>)

\* off() was rejected in the middle of a chase.
C11_Witness ==
    \E i \in Chasers :
        /\ rc[i].last = "off" /\ ~done(rc[i])
        /\ rc[i].err = "assert_neq(0xffffffff, off)"
        /\ rc[i].nadv >= 1 /\ rc[i].prepped_

\* flatOff() handed 0xffffffff to its caller in the middle of a chase.
C11_WitnessFlatOff ==
    \E i \in Chasers :
        /\ rc[i].last = "flatOff" /\ ~done(rc[i])
        /\ rc[i].err = "none" /\ rc[i].got = <<Unset>>
        /\ rc[i].nadv >= 1 /\ rc[i].prepped_

\* C12: a chase that is done, on a resolver with any history, holds the
\* offset, the anchor row and the number of steps of the drive of the same
\* row on a fresh resolver.
C12_Deterministic ==
    \A i \in Chasers :
        (rc[i].err = "none" /\ done(rc[i]))
        => /\ flatOff(rc[i]) = flatOff(toFlatRefOff(rc[i].qlen_, rc[i].start))
           /\ rc[i].row_ = toFlatRefOff(rc[i].qlen_, rc[i].start).row_
           /\ rc[i].nadv = toFlatRefOff(rc[i].qlen_, rc[i].start).nadv

\* A chase of two steps or more is done on a resolver that resolved an
\* earlier chase (off() has set tlen_, and was not called in this chase).
C12_Witness ==
    \E i \in Chasers :
        /\ rc[i].err = "none" /\ done(rc[i])
        /\ rc[i].last = "advance"
        /\ rc[i].nadv >= 2
        /\ rc[i].tlen_ > 0

\* C13: on the example index the chase from row 7 is done after exactly 2
\* advance() calls, on row 2, with flatOff() = 12.
C13_ExampleChase ==
    \A i \in Chasers :
        (rc[i].err = "none" /\ rc[i].start = 7)
        => /\ rc[i].nadv <= 2
           /\ done(rc[i]) <=> rc[i].nadv = 2
           /\ done(rc[i]) => (flatOff(rc[i]) = 12 /\ rc[i].row_ = 2)

C13_Witness ==
    \E i \in Chasers :
        /\ rc[i].err = "none" /\ rc[i].start = 7
        /\ done(rc[i]) /\ rc[i].nadv = 2 /\ flatOff(rc[i]) = 12

\* C14: off() on a resolved chase fails no assertion and hands its caller
\* the tidx and textoff that joinedToTextOff leaves for (qlen_, flatOff()),
\* also when tidx is 0xffffffff; it stores tlen and changes neither done()
\* nor flatOff() nor the row.
C14_OffPassesTranslation ==
    [][\A i \in Chasers :
          (/\ rc'[i] # rc[i]
           /\ rc'[i].last = "off"
           /\ rc[i].err = "none"
           /\ done(rc[i]))
          => /\ rc'[i].err = "none"
             /\ \E t \in joinedToTextOff(rc[i].qlen_, rc[i].off_, rc[i].tlen_) :
                   /\ rc'[i].got = <<t.tidx, t.textoff>>
                   /\ rc'[i].tlen_ = t.tlen
             /\ done(rc'[i])
             /\ flatOff(rc'[i]) = flatOff(rc[i])
             /\ rc'[i].row_ = rc[i].row_
             /\ rc'[i].qlen_ = rc[i].qlen_]_vars

\* off() handed the caller 0xffffffff as tidx, for a chase resolved by
\* stepping.
C14_Witness ==
    \E i \in Chasers :
        /\ rc[i].last = "off" /\ rc[i].err = "none"
        /\ done(rc[i]) /\ rc[i].nadv >= 1
        /\ Len(rc[i].got) = 2 /\ rc[i].got[1] = Unset

\* The resolver that a fresh one becomes by setRow(row, qlen) and n
\* advance() calls.
RECURSIVE FreshAfter(_, _, _)
FreshAfter(qlen, row, n) ==
    IF n = 0 THEN setRow(RowChaser, row, qlen)
    ELSE LET c == FreshAfter(qlen, row, n - 1)
         IN  advance(c, CHOOSE newrow \in mapLF(c.sideloc_) : TRUE)

\* Resolvers a and b are at the same point of the same chase.
SameChase(a, b) ==
    /\ a.err = b.err
    /\ a.row_ = b.row_ /\ a.qlen_ = b.qlen_
    /\ a.done_ = b.done_ /\ a.off_ = b.off_
    /\ a.sideloc_ = b.sideloc_
    /\ a.nadv = b.nadv /\ a.npre = b.npre
    /\ (~a.done_ \/ a.nadv > 0) => (a.jumps_ = b.jumps_ /\ a.prepped_ = b.prepped_)

\* C15: setRow is rejected in no state of the resolver (the assertions of
\* prep(), the only ones that read the state, never fail), and from then on
\* the resolver is, after each call, at the point of the chase where a fresh
\* resolver would be.
C15_ReuseAsFresh ==
    \A i \in Chasers :
        /\ rc[i].err \notin {"assert(!prepped_)", "assert(!sideloc_.valid())"}
        /\ (rc[i].err = "none" /\ rc[i].start # Unset)
              => SameChase(rc[i], FreshAfter(rc[i].qlen_, rc[i].start, rc[i].nadv))

\* A resolver that resolved an earlier chase is awaiting the second step
\* of a new one.
C15_Witness ==
    \E i \in Chasers :
        /\ rc[i].err = "none" /\ ~done(rc[i])
        /\ rc[i].last = "advance"
        /\ rc[i].nadv = 1
        /\ rc[i].tlen_ > 0

\* C16: jumps_ is the number of advance() calls since the most recent
\* setRow, so it is 0 right after every setRow, also one that resolves at
\* once on the sentinel or a marked row.
C16_JumpsCountsAdvances ==
    \A i \in Chasers :
        (rc[i].err = "none" /\ rc[i].start # Unset) => rc[i].jumps_ = rc[i].nadv

\* C17: prepped_ is true exactly when a prefetch has been issued for the
\* locus of the current row and advance() may be called (the chase is not
\* done and the locus is valid).
C17_PreppedMeansAdvanceOK ==
    \A i \in Chasers :
        rc[i].err = "none"
        => (rc[i].prepped_ <=> (PrefetchIssued(rc[i]) /\ ~done(rc[i])))

\* C18: while the chase is not done, off_ is 0xffffffff, whatever offset
\* the resolver held before.
C18_NotDoneOffUnset ==
    \A i \in Chasers : ~done(rc[i]) => rc[i].off_ = Unset

\* A resolver whose resolved offset has been read with off() was given an
\* unmarked row other than the sentinel.
C18_Witness ==
    \E i \in Chasers :
        /\ rc[i].err = "none" /\ rc[i].last = "setRow"
        /\ ~done(rc[i])
        /\ rc[i].tlen_ > 0

\* C19: a valid locus means the chase awaits a step with its prefetch
\* issued; a resolved chase has an invalid locus and as many prefetches as
\* steps since setRow; a step issues a prefetch exactly when the new row is
\* neither the sentinel nor marked.
C19_LocusOnlyWhileAwaiting ==
    /\ [](\A i \in Chasers :
            rc[i].err = "none"
            => /\ rc[i].sideloc_.valid => (~done(rc[i]) /\ PrefetchIssued(rc[i]))
               /\ done(rc[i]) => (~rc[i].sideloc_.valid /\ rc[i].npre = rc[i].nadv)
               /\ (done(rc[i]) /\ rc[i].last = "setRow") => rc[i].npre = 0)
    /\ [][\A i \in Chasers :
            (rc'[i].err = "none" /\ rc'[i].nadv = rc[i].nadv + 1)
            => (rc'[i].npre = rc[i].npre + 1 <=> Unmarked(rc'[i].row_))
               /\ (rc'[i].npre = rc[i].npre <=> done(rc'[i]))]_vars

\* A chase has been resolved by its second step.
C19_Witness ==
    \E i \in Chasers :
        /\ rc[i].err = "none" /\ done(rc[i])
        /\ rc[i].last = "advance"
        /\ rc[i].nadv = 2 /\ rc[i].npre = 2

\* C20: in every state of a resolver, setRow with row 0xffffffff or with
\* qlen 0 fails an assertion and leaves the row, the query length, the step
\* count, the done flag, the offset, the locus and prepped_ as they were.
C20_BadSetRowRejected ==
    \A i \in Chasers :
        rc[i].err = "none"
        => \A row \in RowArgs, qlen \in QlenArgs :
              (row = Unset \/ qlen = 0)
              => LET c == setRow(rc[i], row, qlen)
                 IN  /\ c.err \in {"assert_neq(0xffffffff, row)", "assert_gt(qlen, 0)"}
                     /\ c.row_ = rc[i].row_
                     /\ c.qlen_ = rc[i].qlen_
                     /\ c.jumps_ = rc[i].jumps_
                     /\ c.done_ = rc[i].done_
                     /\ c.off_ = rc[i].off_
                     /\ c.sideloc_ = rc[i].sideloc_
                     /\ c.prepped_ = rc[i].prepped_

\* setRow with qlen 0 was rejected on a resolver in the middle of a chase.
C20_Witness ==
    \E i \in Chasers :
        /\ rc[i].err = "assert_gt(qlen, 0)" /\ rc[i].last = "setRow"
        /\ rc[i].nadv >= 1 /\ rc[i].prepped_ /\ ~done(rc[i])

====
